---- MODULE Spec2Model ----
(***************************************************************************)
(* Sudoku scrambler (src/main.py): scramble() relabels the symbols of a    *)
(* 9x9 grid given as an 81-character string, permutes its bands, the rows  *)
(* inside each band, its stacks, the columns inside each stack, and        *)
(* transposes it on a coin flip.  Every random number the code obtains     *)
(* from the random module is an input of the step that consumes it.        *)
(***************************************************************************)
EXTENDS Integers, Sequences, FiniteSets, TLC

VARIABLES
    pc,        \* position of the program: idle, inside scramble, finished
    input,     \* the string handed to the program (puzzle_string / digits)
    digits,    \* the local variable digits of scramble
    prev,      \* the value of digits before the last executed step
    step,      \* the name of the last executed function
    draws,     \* the random numbers consumed so far, one entry per step
    err,       \* the exception that left scramble, or "none"
    alert      \* the text handed to browser.alert, or "none"

vars == <<pc, input, digits, prev, step, draws, err, alert>>

(***************************************************************************)
(* Bounds of the model.                                                    *)
(***************************************************************************)
\* how many of the well-formed grids of GridList are used as inputs
NumGrids == 2
\* the relabelling draws of scramble are the shift draws 0..MaxShift
MaxShift == 1
\* at most this many proper swaps (j # i) over the band/row/stack/column
\* shuffles of one scramble call
MaxSwaps == 2

(***************************************************************************)
(* Program constants.                                                      *)
(***************************************************************************)
GridSize == 9
BandSize == 3
StringLen == 81

Rows == 0 .. GridSize - 1
Bands == 0 .. BandSize - 1

Min(a, b) == IF a < b THEN a ELSE b
Max(a, b) == IF a > b THEN a ELSE b

(***************************************************************************)
(* sudoku_utils: the grid codec.                                           *)
(***************************************************************************)
DigitChars == <<"0", "1", "2", "3", "4", "5", "6", "7", "8", "9">>

ALL_DIGITS_STRING == <<"1", "2", "3", "4", "5", "6", "7", "8", "9">>

IsDigitChar(ch) == \E k \in 1 .. Len(DigitChars) : DigitChars[k] = ch

CharToInt(ch) == (CHOOSE k \in 1 .. Len(DigitChars) : DigitChars[k] = ch) - 1

IntToChar(n) == DigitChars[n + 1]

\* parse raises FormatError on these strings
ParseFails(s) ==
    \/ Len(s) # StringLen
    \/ \E i \in 1 .. Len(s) : ~IsDigitChar(s[i])

parse(s) == [r \in Rows |-> [c \in Rows |-> CharToInt(s[r * GridSize + c + 1])]]

serialize(g) ==
    [i \in 1 .. GridSize * GridSize |->
        IntToChar(g[(i - 1) \div GridSize][(i - 1) % GridSize])]

zeros_string == [i \in 1 .. StringLen |-> "0"]

(***************************************************************************)
(* shuffle: random.shuffle on a copy of seq.  js[k] is the k-th number the *)
(* shuffle obtains, the index j drawn from 0..i for i = len-1 down to 1.   *)
(***************************************************************************)
Swap(lst, i, j) == [lst EXCEPT ![i + 1] = lst[j + 1], ![j + 1] = lst[i + 1]]

Overwrite(lst, i, j) == [lst EXCEPT ![i + 1] = lst[j + 1]]

RECURSIVE ShuffleLoop(_, _, _)
ShuffleLoop(lst, js, k) ==
    IF k > Len(lst) - 1 THEN lst
    ELSE ShuffleLoop(Swap(lst, Len(lst) - k, js[k]), js, k + 1)

RECURSIVE ShuffleLoopNoSwap(_, _, _)
ShuffleLoopNoSwap(lst, js, k) ==
    IF k > Len(lst) - 1 THEN lst
    ELSE ShuffleLoopNoSwap(Overwrite(lst, Len(lst) - k, js[k]), js, k + 1)

\* a shuffle that assigns x[i] = x[j] without completing the exchange
shuffle_noswap(seq, js) == ShuffleLoopNoSwap(seq, js, 1)

shuffle(seq, js) == ShuffleLoop(seq, js, 1)

\* the draws a shuffle of n elements can obtain: js[k] in 0 .. n-k
DrawSeqs(n) == {js \in [1 .. n - 1 -> 0 .. n - 1] : \A k \in 1 .. n - 1 : js[k] <= n - k}

\* the draw that exchanges every index i with index max(i-s, 0)
ShiftDraw(n, s) == [k \in 1 .. n - 1 |-> Max(n - k - s, 0)]

\* the draws with at most one proper swap
SingleSwapDraws(n) ==
    {[k \in 1 .. n - 1 |-> IF k = p THEN Min(v, n - k) ELSE n - k] :
        p \in 1 .. n - 1, v \in 0 .. n - 1}

\* number of proper swaps (j # i) of one shuffle
SwapCount(js) == Cardinality({k \in DOMAIN js : js[k] # Len(js) + 1 - k})

(***************************************************************************)
(* The transformation primitives.                                          *)
(***************************************************************************)
transpose_grid(m) == [r \in Rows |-> [c \in Rows |-> m[c][r]]]

Translate(table, ch) ==
    IF \E k \in 1 .. Len(ALL_DIGITS_STRING) : ALL_DIGITS_STRING[k] = ch
    THEN table[CHOOSE k \in 1 .. Len(ALL_DIGITS_STRING) : ALL_DIGITS_STRING[k] = ch]
    ELSE ch

\* a relabelling that treats the blank as one more symbol
_relabel_blank_as_symbol(d, js) ==
    LET table == shuffle(ALL_DIGITS_STRING, js)
    IN  [i \in 1 .. Len(d) |-> IF d[i] = "0" THEN table[1] ELSE Translate(table, d[i])]

_relabel(d, js) ==
    LET table == shuffle(ALL_DIGITS_STRING, js)
    IN  [i \in 1 .. Len(d) |-> Translate(table, d[i])]

\* a copy_band that writes every source row to the first row of the target band
copy_band_first_row(grid1, grid2, b1, b2) ==
    [r \in Rows |->
        IF r = b2 * BandSize
        THEN [c \in Rows |-> grid1[b1 * BandSize + BandSize - 1][c]]
        ELSE grid2[r]]

\* copy band b1 of grid1 into band b2 of grid2
copy_band(grid1, grid2, b1, b2) ==
    [r \in Rows |->
        IF r \div BandSize = b2
        THEN [c \in Rows |-> grid1[b1 * BandSize + (r % BandSize)][c]]
        ELSE grid2[r]]

\* for source_band, target_band in zip(range(3), perm): copy_band(...)
RECURSIVE BandLoop(_, _, _, _)
BandLoop(original, result, perm, k) ==
    IF k > Min(BandSize, Len(perm)) THEN result
    ELSE BandLoop(original, copy_band(original, result, k - 1, perm[k]), perm, k + 1)

\* a loop that calls copy_band with source and target band exchanged
RECURSIVE BandLoopExchanged(_, _, _, _)
BandLoopExchanged(original, result, perm, k) ==
    IF k > Min(BandSize, Len(perm)) THEN result
    ELSE BandLoopExchanged(original, copy_band(original, result, perm[k], k - 1), perm, k + 1)

_permute_bands_exchanged(d, js) ==
    serialize(BandLoopExchanged(parse(d), parse(zeros_string), shuffle(<<0, 1, 2>>, js), 1))

_permute_bands(d, js) ==
    serialize(BandLoop(parse(d), parse(zeros_string), shuffle(<<0, 1, 2>>, js), 1))

\* a copy_row that reads the target row and writes the source row
copy_row_exchanged(grid1, grid2, source_row, target_row) ==
    [grid2 EXCEPT ![source_row] = [c \in Rows |-> grid1[target_row][c]]]

copy_row(grid1, grid2, source_row, target_row) ==
    [grid2 EXCEPT ![target_row] = [c \in Rows |-> grid1[source_row][c]]]

\* source_rows of a band as a list: no band offset
BandRowsNoOffset(band_start) == [i \in 1 .. BandSize |-> i - 1]

\* source_rows = range(band_start, band_start + 3), as a list
BandRows(band_start) == [i \in 1 .. BandSize |-> band_start + i - 1]

\* for s_row, t_row in zip(source_rows, target_rows): copy_row(...)
RECURSIVE RowLoop(_, _, _, _, _)
RowLoop(original, result, source_rows, target_rows, k) ==
    IF k > Min(Len(source_rows), Len(target_rows)) THEN result
    ELSE RowLoop(original,
                 copy_row(original, result, source_rows[k], target_rows[k]),
                 source_rows, target_rows, k + 1)

\* for band_start in [0, 3, 6]: the b-th iteration consumes the draw jss[b]
RECURSIVE WithinLoop(_, _, _, _)
WithinLoop(original, result, jss, b) ==
    IF b > BandSize THEN result
    ELSE LET source_rows == BandRows((b - 1) * BandSize)
             target_rows == shuffle(source_rows, jss[b])
         IN  WithinLoop(original,
                        RowLoop(original, result, source_rows, target_rows, 1),
                        jss, b + 1)

_permute_within_bands(d, jss) ==
    serialize(WithinLoop(parse(d), parse(zeros_string), jss, 1))

\* a stack permutation that forgets the two transpositions
_permute_stacks_rows(d, js) == _permute_bands(d, js)

_permute_stacks(d, js) ==
    serialize(transpose_grid(parse(
        _permute_bands(serialize(transpose_grid(parse(d))), js))))

_permute_within_stacks(d, jss) ==
    serialize(transpose_grid(parse(
        _permute_within_bands(serialize(transpose_grid(parse(d))), jss))))

_transpose(d) == serialize(transpose_grid(parse(d)))

(***************************************************************************)
(* Inputs.  A grid is written as its nine rows, each a nine-digit number.  *)
(***************************************************************************)
Pow10(e) == IF e = 0 THEN 1 ELSE
            IF e = 1 THEN 10 ELSE
            IF e = 2 THEN 100 ELSE
            IF e = 3 THEN 1000 ELSE
            IF e = 4 THEN 10000 ELSE
            IF e = 5 THEN 100000 ELSE
            IF e = 6 THEN 1000000 ELSE
            IF e = 7 THEN 10000000 ELSE 100000000

GridString(rows) ==
    [i \in 1 .. StringLen |->
        IntToChar((rows[((i - 1) \div GridSize) + 1]
                      \div Pow10(GridSize - 1 - ((i - 1) % GridSize))) % 10)]

\* the two grids of scramble's doctest, a second solved grid, an irregular grid
GridList ==
    << GridString(<<483921657, 967345821, 251876493, 548132976, 729564138,
                    136798245, 372689514, 814253769, 695417382>>),
       GridString(<<003020600, 900305001, 001806400, 008102900, 700000008,
                    006708200, 002609500, 800203009, 005010300>>),
       GridString(<<123456789, 456789123, 789123456, 231564897, 564897231,
                    897231564, 312645978, 645978312, 978312645>>),
       GridString(<<111111111, 222222220, 333333300, 444444000, 555550000,
                    666600000, 777000000, 880000000, 900000000>>) >>

Grids == {GridList[i] : i \in 1 .. Min(NumGrids, Len(GridList))}

\* strings that are not 81 digits: 80 zeros, 81 times 'a', 82 zeros, the
\* empty string, a grid with one letter in it
Malformed ==
    { SubSeq(zeros_string, 1, StringLen - 1),
      [i \in 1 .. StringLen |-> "a"],
      Append(zeros_string, "0"),
      << >>,
      [GridList[1] EXCEPT ![5] = "x"] }

Inputs == Grids \cup Malformed

\* handle_scramble_click's check of the input
is_valid_input(s) ==
    /\ Len(s) = StringLen
    /\ {s[i] : i \in 1 .. Len(s)} \subseteq {DigitChars[k] : k \in 1 .. Len(DigitChars)}

(***************************************************************************)
(* The random numbers of one scramble call.                                *)
(***************************************************************************)
RelabelDraws == {ShiftDraw(Len(ALL_DIGITS_STRING), s) : s \in 0 .. MaxShift}

BandDraws == DrawSeqs(BandSize)

WithinDraws == {<<a, b, c>> : a \in BandDraws, b \in BandDraws, c \in BandDraws}

CoinDraws == {0, 1}

\* the random numbers obtained by the function that drew last
LastDraw == draws[Len(draws)]

RECURSIVE SumSwaps(_)
SumSwaps(jss) == IF jss = << >> THEN 0 ELSE SwapCount(Head(jss)) + SumSwaps(Tail(jss))

RECURSIVE UsedFrom(_, _)
UsedFrom(ds, s) == IF s > Len(ds) THEN 0 ELSE SumSwaps(ds[s]) + UsedFrom(ds, s + 1)

\* the proper swaps of the band, row, stack and column shuffles so far
UsedSwaps == UsedFrom(draws, 2)

\* the draws of one step, by the number of proper swaps they make
BandDrawsWithin == [n \in 0 .. BandSize - 1 |-> {js \in BandDraws : SwapCount(js) <= n}]

WithinDrawsWithin ==
    [n \in 0 .. BandSize * (BandSize - 1) |-> {jss \in WithinDraws : SumSwaps(jss) <= n}]

\* the draws a step may still obtain in this call
AffordableBandDraws ==
    LET left == MaxSwaps - UsedSwaps
    IN  IF left < 0 THEN {} ELSE BandDrawsWithin[Min(left, BandSize - 1)]

AffordableWithinDraws ==
    LET left == MaxSwaps - UsedSwaps
    IN  IF left < 0 THEN {} ELSE WithinDrawsWithin[Min(left, BandSize * (BandSize - 1))]

(***************************************************************************)
(* The program: a caller hands input to scramble, scramble runs its steps. *)
(***************************************************************************)
Init ==
    /\ pc = "idle"
    /\ input \in Inputs
    /\ digits = << >>
    /\ prev = << >>
    /\ step = "none"
    /\ draws = << >>
    /\ err = "none"
    /\ alert = "none"

\* a function obtained the random numbers d from the random module
Draw(d, nextpc) ==
    /\ draws' = Append(draws, d)
    /\ pc' = nextpc
    /\ UNCHANGED <<input, digits, prev, step, err, alert>>

\* the function name returned newDigits, which scramble assigns to digits
Apply(name, newDigits, nextpc) ==
    /\ prev' = digits
    /\ digits' = newDigits
    /\ step' = name
    /\ pc' = nextpc
    /\ UNCHANGED <<input, draws, err, alert>>

\* parse raised inside the function name; nothing in scramble or in its
\* callers catches the exception
Raise(name) ==
    /\ err' = "FormatError"
    /\ step' = name
    /\ pc' = "raised"
    /\ UNCHANGED <<input, digits, prev, draws, alert>>

\* scramble(input) called directly, as in its doctest
CallScramble ==
    /\ pc = "idle"
    /\ digits' = input
    /\ pc' = "relabel"
    /\ UNCHANGED <<input, prev, step, draws, err, alert>>

\* handle_scramble_click: input is the stripped value of #input; it is
\* checked, then scramble is called (the page is redrawn from its result)
HandleScrambleClick ==
    /\ pc = "idle"
    /\ IF is_valid_input(input)
       THEN /\ digits' = input
            /\ pc' = "relabel"
            /\ alert' = alert
       ELSE /\ alert' = "invalid"
            /\ pc' = "alerted"
            /\ digits' = digits
    /\ UNCHANGED <<input, prev, step, draws, err>>

\* _relabel: the table is shuffled, then the string is translated
RelabelDraw(js) ==
    /\ pc = "relabel"
    /\ Draw(<<js>>, "relabel_apply")

RelabelApply ==
    /\ pc = "relabel_apply"
    /\ Apply("_relabel", _relabel(digits, LastDraw[1]), "bands")

\* _permute_bands: perm is shuffled, then digits is parsed and the bands copied
PermuteBandsDraw(js) ==
    /\ pc = "bands"
    /\ Draw(<<js>>, "bands_apply")

\* a band step that swallows the exception and returns its argument
PermuteBandsApplySwallowing ==
    /\ pc = "bands_apply"
    /\ IF ParseFails(digits)
       THEN Apply("_permute_bands", digits, "returned")
       ELSE Apply("_permute_bands", _permute_bands(digits, LastDraw[1]), "within_bands")

PermuteBandsApply ==
    /\ pc = "bands_apply"
    /\ IF ParseFails(digits)
       THEN Raise("_permute_bands")
       ELSE Apply("_permute_bands", _permute_bands(digits, LastDraw[1]), "within_bands")

\* _permute_within_bands: digits is parsed, then each band draws its target rows
PermuteWithinBandsDraw(jss) ==
    /\ pc = "within_bands"
    /\ IF ParseFails(digits)
       THEN Raise("_permute_within_bands")
       ELSE Draw(jss, "within_bands_apply")

PermuteWithinBandsApply ==
    /\ pc = "within_bands_apply"
    /\ Apply("_permute_within_bands", _permute_within_bands(digits, LastDraw), "stacks")

\* a stack step that reuses the band permutation drawn earlier in the call
PermuteStacksDrawReusing(js) ==
    /\ pc = "stacks"
    /\ js = draws[2][1]
    /\ Draw(<<js>>, "stacks_apply")

\* _permute_stacks: digits is parsed and transposed, then _permute_bands draws
PermuteStacksDraw(js) ==
    /\ pc = "stacks"
    /\ IF ParseFails(digits)
       THEN Raise("_permute_stacks")
       ELSE Draw(<<js>>, "stacks_apply")

PermuteStacksApply ==
    /\ pc = "stacks_apply"
    /\ Apply("_permute_stacks", _permute_stacks(digits, LastDraw[1]), "within_stacks")

PermuteWithinStacksDraw(jss) ==
    /\ pc = "within_stacks"
    /\ IF ParseFails(digits)
       THEN Raise("_permute_within_stacks")
       ELSE Draw(jss, "within_stacks_apply")

PermuteWithinStacksApply ==
    /\ pc = "within_stacks_apply"
    /\ Apply("_permute_within_stacks", _permute_within_stacks(digits, LastDraw), "coin")

\* random.choice([True, False]) returns the element at the drawn index c
CoinDraw(c) ==
    /\ pc = "coin"
    /\ Draw(<<<<c>>>>, "coin_apply")

\* if the coin is True digits is transposed; scramble returns digits
CoinApply ==
    /\ pc = "coin_apply"
    /\ IF LastDraw[1][1] = 0
       THEN IF ParseFails(digits)
            THEN Raise("_transpose")
            ELSE Apply("_transpose", _transpose(digits), "returned")
       ELSE Apply("return", digits, "returned")

RelabelStep == \E js \in RelabelDraws : RelabelDraw(js)

PermuteBandsStep == \E js \in AffordableBandDraws : PermuteBandsDraw(js)

PermuteWithinBandsStep == \E jss \in AffordableWithinDraws : PermuteWithinBandsDraw(jss)

PermuteStacksStep == \E js \in AffordableBandDraws : PermuteStacksDraw(js)

PermuteWithinStacksStep == \E jss \in AffordableWithinDraws : PermuteWithinStacksDraw(jss)

CoinStep == \E c \in CoinDraws : CoinDraw(c)

Next ==
    \/ CallScramble
    \/ HandleScrambleClick
    \/ RelabelStep
    \/ RelabelApply
    \/ PermuteBandsStep
    \/ PermuteBandsApply
    \/ PermuteWithinBandsStep
    \/ PermuteWithinBandsApply
    \/ PermuteStacksStep
    \/ PermuteStacksApply
    \/ PermuteWithinStacksStep
    \/ PermuteWithinStacksApply
    \/ CoinStep
    \/ CoinApply

Spec == Init /\ [][Next]_vars

(***************************************************************************)
(* The primitives on their own: one primitive is applied to a well-formed  *)
(* grid with any of the draws it can obtain.                               *)
(***************************************************************************)
RelabelDrawsAlone ==
    SingleSwapDraws(Len(ALL_DIGITS_STRING))
        \cup {ShiftDraw(Len(ALL_DIGITS_STRING), s) : s \in 0 .. Len(ALL_DIGITS_STRING) - 1}

\* the function name, called on digits, obtained d and returned newDigits
Advance(name, newDigits, d, nextpc) ==
    /\ prev' = digits
    /\ digits' = newDigits
    /\ step' = name
    /\ draws' = Append(draws, d)
    /\ pc' = nextpc
    /\ UNCHANGED <<input, err, alert>>

InitPrim ==
    /\ pc = "prim"
    /\ input \in Grids
    /\ digits = input
    /\ prev = << >>
    /\ step = "none"
    /\ draws = << >>
    /\ err = "none"
    /\ alert = "none"

CallRelabel ==
    /\ pc = "prim"
    /\ \E js \in RelabelDrawsAlone :
          Advance("_relabel", _relabel(digits, js), <<js>>, "prim_done")

CallPermuteBands ==
    /\ pc = "prim"
    /\ \E js \in BandDraws :
          Advance("_permute_bands", _permute_bands(digits, js), <<js>>, "prim_done")

CallPermuteWithinBands ==
    /\ pc = "prim"
    /\ \E jss \in WithinDraws :
          Advance("_permute_within_bands", _permute_within_bands(digits, jss), jss,
                  "prim_done")

CallPermuteStacks ==
    /\ pc = "prim"
    /\ \E js \in BandDraws :
          Advance("_permute_stacks", _permute_stacks(digits, js), <<js>>, "prim_done")

CallPermuteWithinStacks ==
    /\ pc = "prim"
    /\ \E jss \in WithinDraws :
          Advance("_permute_within_stacks", _permute_within_stacks(digits, jss), jss,
                  "prim_done")

CallTranspose ==
    /\ pc = "prim"
    /\ Advance("_transpose", _transpose(digits), << >>, "prim_done")

NextPrim ==
    \/ CallRelabel
    \/ CallPermuteBands
    \/ CallPermuteWithinBands
    \/ CallPermuteStacks
    \/ CallPermuteWithinStacks
    \/ CallTranspose

SpecPrim == InitPrim /\ [][NextPrim]_vars

(***************************************************************************)
(* Vocabulary of the properties.                                           *)
(***************************************************************************)
Count(s, ch) == Cardinality({i \in 1 .. Len(s) : s[i] = ch})

DigitCharSet == {DigitChars[k] : k \in 1 .. Len(DigitChars)}

SymbolChars == DigitCharSet \ {"0"}

IsGridString(s) ==
    /\ Len(s) = StringLen
    /\ \A i \in 1 .. Len(s) : s[i] \in DigitCharSet

\* the character of the 81-character string s at row r, column c
Cell(s, r, c) == s[r * GridSize + c + 1]

\* every row, every column and every box of s holds every symbol 1..9; there
\* are nine cells in each, so each symbol is there exactly once
IsValidSudoku(s) ==
    /\ \A r \in Rows : {Cell(s, r, c) : c \in Rows} = SymbolChars
    /\ \A c \in Rows : {Cell(s, r, c) : r \in Rows} = SymbolChars
    /\ \A a \in Bands, b \in Bands :
          {Cell(s, a * BandSize + i, b * BandSize + j) : i \in Bands, j \in Bands}
              = SymbolChars

InScramble ==
    pc \in {"relabel", "relabel_apply", "bands", "bands_apply", "within_bands",
            "within_bands_apply", "stacks", "stacks_apply", "within_stacks",
            "within_stacks_apply", "coin", "coin_apply", "returned"}

Identity3 == <<0, 1, 2>>

\* the permutation of {0,1,2} a shuffle draws from js
PermOf(js) == shuffle(Identity3, js)

\* the target index of index r when each group of three is permuted by its own draw
TargetOf(jss, r) == BandSize * (r \div BandSize) + PermOf(jss[(r \div BandSize) + 1])[(r % BandSize) + 1]

\* C1: a fully filled valid Sudoku handed to scramble is a valid Sudoku after
\* every step of scramble and when scramble returns, whatever was drawn.
C1_ValidityPreserved ==
    InScramble =>
        \/ IsGridString(digits) /\ IsValidSudoku(digits)
        \/ ~(IsGridString(input) /\ IsValidSudoku(input))

C1_Witness ==
    /\ pc = "returned"
    /\ step = "_transpose"
    /\ IsGridString(input)
    /\ IsValidSudoku(input)
    /\ draws[1][1] # ShiftDraw(Len(ALL_DIGITS_STRING), 0)
    /\ draws[2][1] # ShiftDraw(BandSize, 0)
    /\ draws[4][1] # ShiftDraw(BandSize, 0)
    /\ IsValidSudoku(digits)
    /\ digits # input

\* C2: scramble called with a string that is not 81 digits never returns a
\* string: it stops in the first parse with FormatError, the only error there
\* is, and the error leaves scramble as it was raised.
C2_MalformedInputRaises ==
    /\ pc = "returned" => IsGridString(input)
    /\ ~IsGridString(input) =>
          pc \in {"idle", "alerted", "relabel", "relabel_apply", "bands", "bands_apply",
                  "raised"}
    /\ pc = "raised" => (err = "FormatError" /\ ~IsGridString(input))
    /\ pc # "raised" => err = "none"

C2_Witness ==
    /\ pc = "raised"
    /\ err = "FormatError"
    /\ Len(input) = StringLen - 1

\* C3: the string scramble returns has as many "0" cells as its input.
C3_BlankCountPreserved ==
    pc = "returned" => (Len(digits) = StringLen /\ Count(digits, "0") = Count(input, "0"))

C3_Witness ==
    /\ pc = "returned"
    /\ Count(input, "0") > 0
    /\ Count(input, "0") < StringLen
    /\ {i \in 1 .. StringLen : digits[i] = "0"} # {i \in 1 .. StringLen : input[i] = "0"}
    /\ UsedSwaps > 0

\* C4: the table drawn by the relabelling is a bijection f on the nine symbols
\* and the returned string holds f(d) exactly as often as the input holds d.
C4_SymbolCountsPreserved ==
    pc = "returned" =>
        LET table == shuffle(ALL_DIGITS_STRING, draws[1][1])
        IN  /\ {table[k] : k \in 1 .. Len(table)} =
                   {ALL_DIGITS_STRING[k] : k \in 1 .. Len(ALL_DIGITS_STRING)}
            /\ Len(table) = Len(ALL_DIGITS_STRING)
            /\ \A k \in 1 .. Len(ALL_DIGITS_STRING) :
                  Count(digits, table[k]) = Count(input, ALL_DIGITS_STRING[k])

C4_Witness ==
    /\ pc = "returned"
    /\ draws[1][1] # ShiftDraw(Len(ALL_DIGITS_STRING), 0)
    /\ \E k \in 1 .. Len(ALL_DIGITS_STRING) :
          Count(input, ALL_DIGITS_STRING[k]) # Count(digits, ALL_DIGITS_STRING[k])

\* C6: _relabel keeps every "0" cell, sends every other digit d to the d-th
\* entry of one table that is a permutation of the nine symbols, never to
\* "0", and so leaves the set of blank positions as it was.
C6_RelabelKeepsBlanks ==
    step = "_relabel" =>
        LET table == shuffle(ALL_DIGITS_STRING, LastDraw[1])
        IN  /\ Len(digits) = Len(prev)
            /\ Len(table) = Len(ALL_DIGITS_STRING)
            /\ {table[k] : k \in 1 .. Len(table)} =
                   {ALL_DIGITS_STRING[k] : k \in 1 .. Len(ALL_DIGITS_STRING)}
            /\ \A i \in 1 .. Len(prev) :
                  /\ prev[i] = "0" => digits[i] = "0"
                  /\ prev[i] # "0" =>
                        (digits[i] = table[CharToInt(prev[i])] /\ digits[i] # "0")
            /\ {i \in 1 .. Len(prev) : prev[i] = "0"} =
                   {i \in 1 .. Len(digits) : digits[i] = "0"}

C6_Witness ==
    /\ step = "_relabel"
    /\ Count(prev, "0") > 0
    /\ \A i \in 1 .. Len(prev) : prev[i] # "0" => digits[i] # prev[i]

\* C7: _permute_bands puts band b of its argument, rows in order, at band
\* perm[b] of its result; perm hits every band once; the identity draw
\* returns the argument.
C7_BandsMoveToPerm ==
    step = "_permute_bands" =>
        LET perm == PermOf(LastDraw[1])
            g == parse(prev)
            res == parse(digits)
        IN  /\ {perm[k] : k \in 1 .. Len(perm)} = Bands
            /\ Len(perm) = BandSize
            /\ \A b \in Bands, i \in Bands, c \in Rows :
                  res[BandSize * perm[b + 1] + i][c] = g[BandSize * b + i][c]
            /\ perm = Identity3 => digits = prev

C7_Witness ==
    /\ step = "_permute_bands"
    /\ pc = "prim_done"
    /\ \A b \in Bands : PermOf(LastDraw[1])[b + 1] # b
    /\ \A b \in Bands : PermOf(LastDraw[1])[PermOf(LastDraw[1])[b + 1] + 1] # b
    /\ digits # prev

\* C8: _permute_within_bands moves row r to row t(r) of the same band, t a
\* bijection on the rows, so that no row of the result keeps its zero filling
\* unless a row of that band of the argument is zero.
C8_RowsStayInBand ==
    step = "_permute_within_bands" =>
        LET g == parse(prev)
            res == parse(digits)
        IN  /\ {TargetOf(LastDraw, r) : r \in Rows} = Rows
            /\ \A r \in Rows : TargetOf(LastDraw, r) \div BandSize = r \div BandSize
            /\ \A r \in Rows, c \in Rows : res[TargetOf(LastDraw, r)][c] = g[r][c]
            /\ \A r \in Rows :
                  (\A c \in Rows : res[r][c] = 0) =>
                      \E q \in Rows : /\ q \div BandSize = r \div BandSize
                                      /\ \A c \in Rows : g[q][c] = 0

C8_Witness ==
    /\ step = "_permute_within_bands"
    /\ pc = "prim_done"
    /\ \A r \in Rows : TargetOf(LastDraw, r) # r
    /\ \A r \in Rows : TargetOf(LastDraw, TargetOf(LastDraw, r)) # r
    /\ LastDraw[1] # LastDraw[2]
    /\ \A r \in Rows : \E c \in Rows : parse(digits)[r][c] # 0

\* C9: _permute_stacks and _permute_within_stacks are the row primitives
\* between two transpositions: cells keep their row, column 3s+j goes to
\* column 3*perm[s]+j, resp. every column goes to a column of its own stack;
\* transposing twice gives the grid back.
C9_StacksAreTransposedBands ==
    /\ step = "_permute_stacks" =>
          LET perm == PermOf(LastDraw[1])
              g == parse(prev)
              res == parse(digits)
          IN  /\ \A r \in Rows, s \in Bands, j \in Bands :
                    res[r][BandSize * perm[s + 1] + j] = g[r][BandSize * s + j]
              /\ res = transpose_grid(parse(
                           _permute_bands(serialize(transpose_grid(g)), LastDraw[1])))
              /\ transpose_grid(transpose_grid(g)) = g
    /\ step = "_permute_within_stacks" =>
          LET g == parse(prev)
              res == parse(digits)
          IN  /\ {TargetOf(LastDraw, c) : c \in Rows} = Rows
              /\ \A c \in Rows : TargetOf(LastDraw, c) \div BandSize = c \div BandSize
              /\ \A r \in Rows, c \in Rows : res[r][TargetOf(LastDraw, c)] = g[r][c]
              /\ res = transpose_grid(parse(
                           _permute_within_bands(serialize(transpose_grid(g)), LastDraw)))
              /\ transpose_grid(transpose_grid(g)) = g

C9_Witness ==
    /\ step = "_permute_stacks"
    /\ pc = "prim_done"
    /\ \A b \in Bands : PermOf(LastDraw[1])[b + 1] # b
    /\ \A b \in Bands : PermOf(LastDraw[1])[PermOf(LastDraw[1])[b + 1] + 1] # b
    /\ digits # prev
    /\ digits # _permute_bands(prev, LastDraw[1])

====
